---- MODULE Spec2Model ----
(***************************************************************************)
(* Model of regions/core/core.py: the constrained attributes (RegionAttr   *)
(* and its variants), the linked annulus attributes, the region algebra    *)
(* of PixelRegion / SkyRegion, mask-mode validation, sky containment and   *)
(* the RegionMeta / RegionVisual containers.                               *)
(*                                                                         *)
(* Each component has its own variables and its own specification; a       *)
(* specification leaves the other components' variables at their initial   *)
(* values.                                                                 *)
(***************************************************************************)
EXTENDS Integers, Sequences, FiniteSets, TLC

VARIABLES
    attrKind,      \* RegionAttr: the variant (class) of the descriptor
    attrValues,    \* RegionAttr._values: instance -> stored value
    attrAccepted,  \* history: instance -> value of the last write that returned
    attrLast,      \* the last __set__ call and its outcome
    annVariant,    \* annulus: "scalar" (numeric) or "quantity" descriptors
    annField,      \* annulus: operand (1 = region1, 2 = region2) -> its field
    annLast,       \* the last inner/outer __set__ call and its outcome
    cenAttr,       \* the compound's descriptor: center (pix/sky) or angle
    cenKind,       \* operand -> variant of its own center/angle attribute
    cenField,      \* operand -> its stored center/angle
    cenLast,       \* the last center/angle __set__ call and its outcome
    heap,          \* the regions constructed so far, by identity (index)
    regLast,       \* the last region operation and its outcome
    conLast,       \* the last containment call and its outcome
    maskLast,      \* the last _validate_mode call and its outcome
    meta,          \* a RegionMeta dict: stored key -> value
    visual,        \* a RegionVisual dict: stored key -> value
    dictLast       \* the last item write or read and its outcome

vars == <<attrKind, attrValues, attrAccepted, attrLast,
          annVariant, annField, annLast,
          cenAttr, cenKind, cenField, cenLast,
          heap, regLast, conLast, maskLast, meta, visual, dictLast>>

attrVars == <<attrKind, attrValues, attrAccepted, attrLast>>
annVars  == <<annVariant, annField, annLast>>
cenVars  == <<cenAttr, cenKind, cenField, cenLast>>
regVars  == <<heap, regLast>>
conVars  == <<conLast>>
maskVars == <<maskLast>>
dictVars == <<meta, visual, dictLast>>

\* what an action of one component leaves alone
exceptAttr == <<annVars, cenVars, regVars, conVars, maskVars, dictVars>>
exceptAnn  == <<attrVars, cenVars, regVars, conVars, maskVars, dictVars>>
exceptCen  == <<attrVars, annVars, regVars, conVars, maskVars, dictVars>>
exceptReg  == <<attrVars, annVars, cenVars, conVars, maskVars, dictVars>>
exceptCon  == <<attrVars, annVars, cenVars, regLast, maskVars, dictVars>>
exceptMask == <<attrVars, annVars, cenVars, regVars, conVars, dictVars>>
exceptDict == <<attrVars, annVars, cenVars, regVars, conVars, maskVars>>

(***************************************************************************)
(* Values.  A value is a record: its class, its number of dimensions (0    *)
(* for a scalar) and v (the magnitude of a length, a label otherwise).     *)
(***************************************************************************)
NumInstances == 2
MaxNdim == 2

\* two labels tell a value written from the one written before it
Tags == {1, 2}

Val(c, n, t) == [cls |-> c, ndim |-> n, v |-> t]

\* Python's None: what RegionAttr.__get__ returns for an instance never set
None == Val("NoneType", 0, 0)

\* value.isscalar of PixCoord, SkyCoord and Quantity
isscalar(value) == value.ndim = 0

\* numpy.isscalar: true of Python/numpy scalar numbers and of strings, false
\* of every ndarray (a Quantity is an ndarray subclass) and of other objects
np_isscalar(value) == value.cls \in {"number", "str"}

ArrayClasses == {"PixCoord", "SkyCoord", "Quantity"}
AtomClasses == {"number", "PixelRegion", "SkyRegion"}

\* the values written to a constrained attribute
AttrInputs ==
    {Val(c, n, t) : c \in ArrayClasses, n \in 0..MaxNdim, t \in Tags}
    \cup {Val(c, 0, t) : c \in AtomClasses, t \in Tags}
    \cup {Val("ndarray", n, 1) : n \in 0..MaxNdim}
    \cup {Val("str", 0, 1)}

Instances == 1..NumInstances

(***************************************************************************)
(* RegionAttr and its variants: _validate returns TRUE when it returns     *)
(* without raising.                                                        *)
(***************************************************************************)
ScalarPix_validate(value) == value.cls = "PixCoord" /\ isscalar(value)

OneDPix_validate(value) ==
    value.cls = "PixCoord" /\ ~isscalar(value) /\ value.ndim = 1

ScalarLength_validate(value) == np_isscalar(value)

ScalarSky_validate(value) == value.cls = "SkyCoord" /\ isscalar(value)

OneDSky_validate(value) == value.cls = "SkyCoord" /\ value.ndim = 1

QuantityLength_validate(value) == value.cls = "Quantity" /\ isscalar(value)

\* a validation that accepts a region of either frame family
CompoundRegionPix_validate_AnyRegion(value) ==
    value.cls \in {"PixelRegion", "SkyRegion"}

CompoundRegionPix_validate(value) == value.cls = "PixelRegion"

CompoundRegionSky_validate(value) == value.cls = "SkyRegion"

AttrKinds == {"RegionAttr", "ScalarPix", "OneDPix", "ScalarLength", "ScalarSky",
              "OneDSky", "QuantityLength", "CompoundRegionPix",
              "CompoundRegionSky"}

\* self._validate(value), dispatched on the descriptor's class: "ok" when it
\* returns, else the exception it raises
RegionAttr_validate(kind, value) ==
    CASE kind = "RegionAttr" -> "NotImplementedError"
      [] kind = "ScalarPix" ->
            IF ScalarPix_validate(value) THEN "ok" ELSE "ValueError"
      [] kind = "OneDPix" ->
            IF OneDPix_validate(value) THEN "ok" ELSE "ValueError"
      [] kind = "ScalarLength" ->
            IF ScalarLength_validate(value) THEN "ok" ELSE "ValueError"
      [] kind = "ScalarSky" ->
            IF ScalarSky_validate(value) THEN "ok" ELSE "ValueError"
      [] kind = "OneDSky" ->
            IF OneDSky_validate(value) THEN "ok" ELSE "ValueError"
      [] kind = "QuantityLength" ->
            IF QuantityLength_validate(value) THEN "ok" ELSE "ValueError"
      [] kind = "CompoundRegionPix" ->
            IF CompoundRegionPix_validate(value) THEN "ok" ELSE "ValueError"
      [] kind = "CompoundRegionSky" ->
            IF CompoundRegionSky_validate(value) THEN "ok" ELSE "ValueError"

\* RegionAttr.__get__(instance, owner): self._values.get(instance, None)
RegionAttr_get(values, instance) == values[instance]

\* a __set__ that stores before it validates
RegionAttr_set_StoreFirst(kind, values, instance, value) ==
    [values |-> [values EXCEPT ![instance] = value],
     outcome |-> RegionAttr_validate(kind, value)]

\* RegionAttr.__set__(instance, value): validate, then store
RegionAttr_set(kind, values, instance, value) ==
    LET r == RegionAttr_validate(kind, value) IN
    IF r = "ok"
    THEN [values |-> [values EXCEPT ![instance] = value], outcome |-> "ok"]
    ELSE [values |-> values, outcome |-> r]

AttrIdleLast ==
    [op |-> "none", inst |-> 0, value |-> None, outcome |-> "none"]

AttrInit ==
    /\ attrKind \in AttrKinds
    /\ attrValues = [i \in Instances |-> None]
    /\ attrAccepted = [i \in Instances |-> None]
    /\ attrLast = AttrIdleLast

AttrIdle ==
    /\ attrKind = "RegionAttr"
    /\ attrValues = [i \in Instances |-> None]
    /\ attrAccepted = [i \in Instances |-> None]
    /\ attrLast = AttrIdleLast

\* instance.attr = value
AttrSet ==
    \E instance \in Instances, value \in AttrInputs :
        LET r == RegionAttr_set(attrKind, attrValues, instance, value) IN
        /\ attrValues' = r.values
        /\ attrAccepted' = IF r.outcome = "ok"
                           THEN [attrAccepted EXCEPT ![instance] = value]
                           ELSE attrAccepted
        /\ attrLast' = [op |-> "set", inst |-> instance, value |-> value,
                        outcome |-> r.outcome]
        /\ UNCHANGED <<attrKind, exceptAttr>>

\* instance.attr, read: the value read is recorded in attrLast.value
AttrGet ==
    \E instance \in Instances :
        /\ attrLast' = [op |-> "get", inst |-> instance,
                        value |-> RegionAttr_get(attrValues, instance),
                        outcome |-> "ok"]
        /\ UNCHANGED <<attrKind, attrValues, attrAccepted, exceptAttr>>

(***************************************************************************)
(* Linked annulus attributes: inner and outer lengths.  The compound's     *)
(* operands are region1 (operand 1) and region2 (operand 2); setattr on an *)
(* operand goes through the operand's own length attribute (ScalarLength   *)
(* for the numeric descriptors, QuantityLength for the quantity ones).     *)
(***************************************************************************)
MaxLen == 3

Operands == {1, 2}

Lengths == 0..MaxLen

\* the values written: scalar numbers, arrays, scalar and array quantities
AnnInputs ==
    {Val("number", 0, t) : t \in Lengths}
    \cup {Val("ndarray", 1, t) : t \in Lengths}
    \cup {Val("Quantity", n, t) : n \in 0..1, t \in Lengths}

AnnResult(fields, outcome) == [fields |-> fields, outcome |-> outcome]

\* setattr(reg, self._name, value) on operand reg: the operand's own attribute
OperandSet(kind, fields, reg, value) ==
    LET r == RegionAttr_set(kind, fields, reg, value) IN
    AnnResult(r.values, r.outcome)

\* an inner __set__ that assigns to region2, the wrong operand
AnnulusInnerScalarLength_set_WrongOperand(fields, value) ==
    IF np_isscalar(value)
    THEN IF fields[2].v < value.v
         THEN AnnResult(fields, "ValueError")
         ELSE OperandSet("ScalarLength", fields, 2, value)
    ELSE AnnResult(fields, "ValueError")

\* AnnulusInnerScalarLength.__set__(instance, value)
AnnulusInnerScalarLength_set(fields, value) ==
    IF np_isscalar(value)
    THEN IF fields[2].v < value.v
         THEN AnnResult(fields, "ValueError")
         ELSE OperandSet("ScalarLength", fields, 1, value)
    ELSE AnnResult(fields, "ValueError")

\* AnnulusOuterScalarLength.__set__(instance, value)
AnnulusOuterScalarLength_set(fields, value) ==
    IF np_isscalar(value)
    THEN IF fields[1].v > value.v
         THEN AnnResult(fields, "ValueError")
         ELSE OperandSet("ScalarLength", fields, 2, value)
    ELSE AnnResult(fields, "ValueError")

\* AnnulusInnerQuantityLength.__set__(instance, value)
AnnulusInnerQuantityLength_set(fields, value) ==
    IF value.cls = "Quantity" /\ isscalar(value)
    THEN IF fields[2].v < value.v
         THEN AnnResult(fields, "ValueError")
         ELSE OperandSet("QuantityLength", fields, 1, value)
    ELSE AnnResult(fields, "ValueError")

\* AnnulusOuterQuantityLength.__set__(instance, value)
AnnulusOuterQuantityLength_set(fields, value) ==
    IF value.cls = "Quantity" /\ isscalar(value)
    THEN IF fields[1].v > value.v
         THEN AnnResult(fields, "ValueError")
         ELSE OperandSet("QuantityLength", fields, 2, value)
    ELSE AnnResult(fields, "ValueError")

\* AnnulusInner*Length.__get__ / AnnulusOuter*Length.__get__
AnnulusInner_get(fields) == fields[1]

AnnulusOuter_get(fields) == fields[2]

AnnVariants == {"scalar", "quantity"}

AnnClass(variant) == IF variant = "scalar" THEN "number" ELSE "Quantity"

AnnIdleLast ==
    [op |-> "none", value |-> None, outcome |-> "none",
     pre1 |-> None, pre2 |-> None]

\* a linked annulus: both operands hold a scalar length, inner < outer
AnnInit ==
    /\ annVariant \in AnnVariants
    /\ \E a \in Lengths, b \in Lengths :
          /\ a < b
          /\ annField = (1 :> Val(AnnClass(annVariant), 0, a)
                          @@ 2 :> Val(AnnClass(annVariant), 0, b))
    /\ annLast = AnnIdleLast

AnnIdle ==
    /\ annVariant = "scalar"
    /\ annField = (1 :> Val("number", 0, 0) @@ 2 :> Val("number", 0, 1))
    /\ annLast = AnnIdleLast

AnnStep(op, value, r) ==
    /\ annField' = r.fields
    /\ annLast' = [op |-> op, value |-> value, outcome |-> r.outcome,
                    pre1 |-> AnnulusInner_get(annField),
                    pre2 |-> AnnulusOuter_get(annField)]
    /\ UNCHANGED <<annVariant, exceptAnn>>

\* compound.inner_<name> = value
InnerSet ==
    \E value \in AnnInputs :
        AnnStep("inner", value,
                IF annVariant = "scalar"
                THEN AnnulusInnerScalarLength_set(annField, value)
                ELSE AnnulusInnerQuantityLength_set(annField, value))

\* compound.outer_<name> = value
OuterSet ==
    \E value \in AnnInputs :
        AnnStep("outer", value,
                IF annVariant = "scalar"
                THEN AnnulusOuterScalarLength_set(annField, value)
                ELSE AnnulusOuterQuantityLength_set(annField, value))

(***************************************************************************)
(* Linked annulus attributes: shared center and angle.  Each operand's own *)
(* center/angle is a constrained attribute of the operand's class; the     *)
(* operand classes are defined outside core.py, so the variant of each     *)
(* operand's attribute is a parameter of the model.                        *)
(***************************************************************************)
CenAttrs == {"AnnulusCenterPix", "AnnulusCenterSky", "AnnulusAngle"}

OperandKinds == {"ScalarPix", "OneDPix", "ScalarSky", "OneDSky",
                 "QuantityLength", "ScalarLength"}

CenInputs ==
    {Val(c, n, t) : c \in {"PixCoord", "SkyCoord", "Quantity"},
                    n \in 0..1, t \in Tags}
    \cup {Val("number", 0, t) : t \in Tags}

\* setattr(reg1, name, value); setattr(reg2, name, value): the second runs
\* only if the first returned
SetBoth(kinds, fields, value) ==
    LET r1 == RegionAttr_set(kinds[1], fields, 1, value) IN
    IF r1.outcome # "ok"
    THEN AnnResult(r1.values, r1.outcome)
    ELSE LET r2 == RegionAttr_set(kinds[2], r1.values, 2, value) IN
         AnnResult(r2.values, r2.outcome)

\* AnnulusCenterPix.__set__(instance, value)
AnnulusCenterPix_set(kinds, fields, value) ==
    IF value.cls = "PixCoord" /\ isscalar(value)
    THEN SetBoth(kinds, fields, value)
    ELSE AnnResult(fields, "ValueError")

\* AnnulusCenterSky.__set__(instance, value)
AnnulusCenterSky_set(kinds, fields, value) ==
    IF value.cls = "SkyCoord" /\ isscalar(value)
    THEN SetBoth(kinds, fields, value)
    ELSE AnnResult(fields, "ValueError")

\* AnnulusAngle.__set__(instance, value)
AnnulusAngle_set(kinds, fields, value) ==
    IF value.cls = "Quantity" /\ isscalar(value)
    THEN SetBoth(kinds, fields, value)
    ELSE AnnResult(fields, "ValueError")

\* AnnulusCenterPix / AnnulusCenterSky / AnnulusAngle .__get__
AnnulusShared_get(fields) == fields[1]

CenIdleLast ==
    [op |-> "none", value |-> None, outcome |-> "none",
     pre1 |-> None, pre2 |-> None]

\* a linked compound: each operand was constructed with a center/angle its own
\* attribute accepts
CenInit ==
    /\ cenAttr \in CenAttrs
    /\ cenKind \in [Operands -> OperandKinds]
    /\ cenField \in [Operands -> CenInputs]
    /\ \A i \in Operands : RegionAttr_validate(cenKind[i], cenField[i]) = "ok"
    /\ cenLast = CenIdleLast

CenIdle ==
    /\ cenAttr = "AnnulusCenterPix"
    /\ cenKind = [i \in Operands |-> "ScalarPix"]
    /\ cenField = [i \in Operands |-> Val("PixCoord", 0, 1)]
    /\ cenLast = CenIdleLast

CenStep(op, value, r) ==
    /\ cenField' = r.fields
    /\ cenLast' = [op |-> op, value |-> value, outcome |-> r.outcome,
                    pre1 |-> cenField[1], pre2 |-> cenField[2]]
    /\ UNCHANGED <<cenAttr, cenKind, exceptCen>>

\* compound.center = value (pixel or sky compound)
CenterSet ==
    \E value \in CenInputs :
        /\ cenAttr \in {"AnnulusCenterPix", "AnnulusCenterSky"}
        /\ CenStep("center", value,
                    IF cenAttr = "AnnulusCenterPix"
                    THEN AnnulusCenterPix_set(cenKind, cenField, value)
                    ELSE AnnulusCenterSky_set(cenKind, cenField, value))

\* compound.angle = value
AngleSet ==
    \E value \in CenInputs :
        /\ cenAttr = "AnnulusAngle"
        /\ CenStep("angle", value,
                    AnnulusAngle_set(cenKind, cenField, value))

(***************************************************************************)
(* Region algebra.  A region is identified by its index in heap; a record  *)
(* holds its frame family and, for a compound, its operands and operator.  *)
(***************************************************************************)
MaxRegions == 3

Frames == {"pixel", "sky"}

Simple(frame) ==
    [frame |-> frame, kind |-> "simple", region1 |-> 0, region2 |-> 0,
     operator |-> "none"]

Compound(frame, r1, r2, op) ==
    [frame |-> frame, kind |-> "compound", region1 |-> r1, region2 |-> r2,
     operator |-> op]

\* the region with identity id, as a value handed to a constrained attribute
RegionValue(h, id) ==
    Val(IF h[id].frame = "pixel" THEN "PixelRegion" ELSE "SkyRegion", 0, id)

RegResult(h, outcome, result) ==
    [heap |-> h, outcome |-> outcome, result |-> result]

\* the constrained attribute of a compound's region1 / region2 slot
SlotKind(frame) ==
    IF frame = "pixel" THEN "CompoundRegionPix" ELSE "CompoundRegionSky"

\* CompoundPixelRegion(region1, region2, operator) and
\* CompoundSkyRegion(region1, region2, operator): both operand slots are
\* assigned through the slot's constrained attribute; the new region exists
\* only if both assignments return
CompoundRegion(h, frame, r1, r2, op) ==
    IF /\ RegionAttr_validate(SlotKind(frame), RegionValue(h, r1)) = "ok"
       /\ RegionAttr_validate(SlotKind(frame), RegionValue(h, r2)) = "ok"
    THEN RegResult(Append(h, Compound(frame, r1, r2, op)), "ok", Len(h) + 1)
    ELSE RegResult(h, "ValueError", 0)

\* PixelRegion.intersection / symmetric_difference / union
PixelRegion_intersection(h, self, other) ==
    CompoundRegion(h, "pixel", self, other, "and_")

PixelRegion_symmetric_difference(h, self, other) ==
    CompoundRegion(h, "pixel", self, other, "xor")

\* a union that passes operator.and_
PixelRegion_union_WrongOperator(h, self, other) ==
    CompoundRegion(h, "pixel", self, other, "and_")

PixelRegion_union(h, self, other) ==
    CompoundRegion(h, "pixel", self, other, "or_")

\* SkyRegion.intersection / symmetric_difference / union
SkyRegion_intersection(h, self, other) ==
    CompoundRegion(h, "sky", self, other, "and_")

SkyRegion_symmetric_difference(h, self, other) ==
    CompoundRegion(h, "sky", self, other, "xor")

SkyRegion_union(h, self, other) ==
    CompoundRegion(h, "sky", self, other, "or_")

\* self.intersection(other) etc., resolved on self's class
Region_intersection(h, self, other) ==
    IF h[self].frame = "pixel"
    THEN PixelRegion_intersection(h, self, other)
    ELSE SkyRegion_intersection(h, self, other)

Region_union(h, self, other) ==
    IF h[self].frame = "pixel"
    THEN PixelRegion_union(h, self, other)
    ELSE SkyRegion_union(h, self, other)

Region_symmetric_difference(h, self, other) ==
    IF h[self].frame = "pixel"
    THEN PixelRegion_symmetric_difference(h, self, other)
    ELSE SkyRegion_symmetric_difference(h, self, other)

\* Region.__and__ / __or__ / __xor__
Region___and__(h, self, other) == Region_intersection(h, self, other)

Region___or__(h, self, other) == Region_union(h, self, other)

Region___xor__(h, self, other) == Region_symmetric_difference(h, self, other)

Methods == {"intersection", "union", "symmetric_difference"}

Sugar == {"&", "|", "^"}

Call(h, name, self, other) ==
    CASE name = "intersection" -> Region_intersection(h, self, other)
      [] name = "union" -> Region_union(h, self, other)
      [] name = "symmetric_difference" ->
            Region_symmetric_difference(h, self, other)
      [] name = "&" -> Region___and__(h, self, other)
      [] name = "|" -> Region___or__(h, self, other)
      [] name = "^" -> Region___xor__(h, self, other)

(***************************************************************************)
(* Containment.  to_pixel, PixCoord.from_sky and the pixel region's        *)
(* contains are collaborators: a call records which of them were invoked.  *)
(***************************************************************************)
NumWcs == 4

CoordResult(outcome, calls) == [outcome |-> outcome, calls |-> calls]

\* a contains that checks skycoord.isscalar first
SkyRegion_contains_ScalarOnly(skycoord, wcs) ==
    IF ~isscalar(skycoord)
    THEN CoordResult("ValueError", <<>>)
    ELSE CoordResult("returned", <<"to_pixel", "from_sky", "contains">>)

\* SkyRegion.contains(skycoord, wcs)
SkyRegion_contains(skycoord, wcs) ==
    CoordResult("returned", <<"to_pixel", "from_sky", "contains">>)

\* PixelRegion.__contains__(coord)
PixelRegion___contains__(coord) ==
    IF ~isscalar(coord)
    THEN CoordResult("ValueError", <<>>)
    ELSE CoordResult("returned", <<"contains">>)

Coords(cls) == {Val(cls, n, t) : n \in 0..MaxNdim, t \in Tags}

RegIdleLast ==
    [op |-> "none", a |-> 0, b |-> 0, outcome |-> "none", result |-> 0,
     preLen |-> 0]

\* the regions that exist at the start: two simple regions
BaseHeaps == {<<Simple(f1), Simple(f2)>> : f1 \in Frames, f2 \in Frames}

RegInit ==
    /\ heap \in BaseHeaps
    /\ regLast = RegIdleLast

RegIdle ==
    /\ heap = <<Simple("pixel"), Simple("pixel")>>
    /\ regLast = RegIdleLast

Ids == 1..Len(heap)

\* a.intersection(b), a.union(b), a.symmetric_difference(b), a & b, a | b, a ^ b
Combine ==
    \E name \in Methods \cup Sugar, a \in Ids, b \in Ids :
        LET r == Call(heap, name, a, b) IN
        /\ Len(heap) < MaxRegions
        /\ heap' = r.heap
        /\ regLast' = [op |-> name, a |-> a, b |-> b, outcome |-> r.outcome,
                       result |-> r.result, preLen |-> Len(heap)]
        /\ UNCHANGED exceptReg

\* compound.region1 = r / compound.region2 = r
SlotSet ==
    \E c \in Ids, slot \in {"region1", "region2"}, r \in Ids :
        LET res == RegionAttr_validate(SlotKind(heap[c].frame),
                                       RegionValue(heap, r)) IN
        /\ heap[c].kind = "compound"
        /\ heap' = IF res # "ok" THEN heap
                    ELSE IF slot = "region1"
                         THEN [heap EXCEPT ![c].region1 = r]
                         ELSE [heap EXCEPT ![c].region2 = r]
        /\ regLast' = [op |-> slot, a |-> c, b |-> r, outcome |-> res,
                       result |-> 0, preLen |-> Len(heap)]
        /\ UNCHANGED exceptReg

ConIdleLast ==
    [op |-> "none", region |-> 0, coord |-> None, wcs |-> 0,
     outcome |-> "none", calls |-> <<>>]

ConInit == conLast = ConIdleLast

\* sky_region.contains(skycoord, wcs)
SkyContains ==
    \E s \in Ids, skycoord \in Coords("SkyCoord"), wcs \in 1..NumWcs :
        LET r == SkyRegion_contains(skycoord, wcs) IN
        /\ heap[s].frame = "sky"
        /\ conLast' = [op |-> "contains", region |-> s, coord |-> skycoord,
                       wcs |-> wcs, outcome |-> r.outcome, calls |-> r.calls]
        /\ UNCHANGED <<heap, exceptCon>>

\* coord in pixel_region
PixelIn ==
    \E p \in Ids, coord \in Coords("PixCoord") :
        LET r == PixelRegion___contains__(coord) IN
        /\ heap[p].frame = "pixel"
        /\ conLast' = [op |-> "in", region |-> p, coord |-> coord,
                       wcs |-> 0, outcome |-> r.outcome, calls |-> r.calls]
        /\ UNCHANGED <<heap, exceptCon>>

(***************************************************************************)
(* Mask-mode validation.  A subpixels argument is a value of class int,    *)
(* float (the float v.0), str or NoneType.                                 *)
(***************************************************************************)
MaxSub == 4

VALID_MASK_MODES == {"center", "exact", "subpixels"}

ModeInputs == VALID_MASK_MODES \cup {"triangle", "Center", ""}

SubpixelInputs ==
    {Val(c, 0, n) : c \in {"int", "float"}, n \in (0 - MaxSub)..MaxSub}
    \cup {Val("str", 0, 0), None}

\* isinstance(value, int)
isinstance_int(value) == value.cls = "int"

\* a validation that lets subpixels = 0 through
PixelRegion__validate_mode_NonNegative(mode, subpixels) ==
    IF mode \notin VALID_MASK_MODES
    THEN "ValueError"
    ELSE IF mode = "subpixels"
              /\ (~isinstance_int(subpixels) \/ subpixels.v < 0)
         THEN "ValueError"
         ELSE "ok"

\* PixelRegion._validate_mode(mode, subpixels)
PixelRegion__validate_mode(mode, subpixels) ==
    IF mode \notin VALID_MASK_MODES
    THEN "ValueError"
    ELSE IF mode = "subpixels"
              /\ (~isinstance_int(subpixels) \/ subpixels.v <= 0)
         THEN "ValueError"
         ELSE "ok"

MaskIdleLast == [mode |-> "none", subpixels |-> None, outcome |-> "none"]

MaskInit == maskLast = MaskIdleLast

\* PixelRegion._validate_mode(mode, subpixels), as to_mask calls it
ValidateMode ==
    \E mode \in ModeInputs, subpixels \in SubpixelInputs :
        /\ maskLast' = [mode |-> mode, subpixels |-> subpixels,
                        outcome |-> PixelRegion__validate_mode(mode, subpixels)]
        /\ UNCHANGED exceptMask

(***************************************************************************)
(* RegionMeta and RegionVisual: dict subclasses.  A dict is a function     *)
(* from its stored keys to their values.                                   *)
(***************************************************************************)
RegionMeta_valid_keys ==
    {"label", "symbol", "include", "frame", "range", "veltype", "restfreq",
     "tag", "comment", "coord", "line", "name", "select", "highlite", "fixed",
     "edit", "move", "rotate", "delete", "source", "background", "corr",
     "type"}

RegionMeta_key_mapping == [point |-> "symbol", text |-> "label"]

RegionVisual_valid_keys ==
    {"color", "dash", "font", "dashlist", "symsize", "symthick", "fontsize",
     "fontstyle", "usetex", "labelpos", "labeloff", "linewidth", "linestyle",
     "fill", "line"}

RegionVisual_key_mapping == [width |-> "linewidth"]

\* the keys written and the values written
KeyInputs == {"symbol", "point", "label", "text", "line", "width",
              "linewidth", "color", "nonsense"}

DictValues == {"x", "y"}

EmptyDict == [k \in {} |-> "x"]

\* dict.get(key, default) on a mapping table
Get(mapping, key, default) ==
    IF key \in DOMAIN mapping THEN mapping[key] ELSE default

\* dict.__setitem__(key, value)
dict_setitem(d, key, value) ==
    [k \in DOMAIN d \cup {key} |-> IF k = key THEN value ELSE d[k]]

DictResult(d, outcome) == [dict |-> d, outcome |-> outcome]

\* a __setitem__ that skips the alias table
RegionMeta_setitem_NoAlias(d, key, value) ==
    IF key \in RegionMeta_valid_keys
    THEN DictResult(dict_setitem(d, key, value), "ok")
    ELSE DictResult(d, "KeyError")

\* RegionMeta.__setitem__(key, value)
RegionMeta_setitem(d, key, value) ==
    LET k == Get(RegionMeta_key_mapping, key, key) IN
    IF k \in RegionMeta_valid_keys
    THEN DictResult(dict_setitem(d, k, value), "ok")
    ELSE DictResult(d, "KeyError")

\* RegionVisual.__setitem__(key, value)
RegionVisual_setitem(d, key, value) ==
    LET k == Get(RegionVisual_key_mapping, key, key) IN
    IF k \in RegionVisual_valid_keys
    THEN DictResult(dict_setitem(d, k, value), "ok")
    ELSE DictResult(d, "KeyError")

ReadResult(outcome, value) == [outcome |-> outcome, value |-> value]

\* dict.__getitem__(item) (super call): the value stored under item, or
\* KeyError when item is not stored; no value is returned then
dict_getitem(d, item) ==
    IF item \in DOMAIN d
    THEN ReadResult("ok", d[item])
    ELSE ReadResult("KeyError", "")

\* a __getitem__ that tests the vocabulary first and reports a key outside it
\* as an invalid key
RegionMeta_getitem_VocabularyFirst(d, item) ==
    LET k == Get(RegionMeta_key_mapping, item, item) IN
    IF k \in RegionMeta_valid_keys
    THEN dict_getitem(d, k)
    ELSE ReadResult("InvalidKey", "")

\* RegionMeta.__getitem__(item)
RegionMeta_getitem(d, item) ==
    LET k == Get(RegionMeta_key_mapping, item, item) IN
    dict_getitem(d, k)

\* RegionVisual.__getitem__(item)
RegionVisual_getitem(d, item) ==
    LET k == Get(RegionVisual_key_mapping, item, item) IN
    dict_getitem(d, k)

DictIdleLast ==
    [op |-> "none", key |-> "", value |-> "x", outcome |-> "none",
     pre |-> EmptyDict]

DictInit ==
    /\ meta = EmptyDict
    /\ visual = EmptyDict
    /\ dictLast = DictIdleLast

\* meta[key] = value
MetaSet ==
    \E key \in KeyInputs, value \in DictValues :
        LET r == RegionMeta_setitem(meta, key, value) IN
        /\ meta' = r.dict
        /\ dictLast' = [op |-> "meta_set", key |-> key, value |-> value,
                        outcome |-> r.outcome, pre |-> meta]
        /\ UNCHANGED <<visual, exceptDict>>

\* visual[key] = value
VisualSet ==
    \E key \in KeyInputs, value \in DictValues :
        LET r == RegionVisual_setitem(visual, key, value) IN
        /\ visual' = r.dict
        /\ dictLast' = [op |-> "visual_set", key |-> key, value |-> value,
                        outcome |-> r.outcome, pre |-> visual]
        /\ UNCHANGED <<meta, exceptDict>>

\* meta[key], read: nothing is assigned to the dict
MetaGet ==
    \E key \in KeyInputs :
        LET r == RegionMeta_getitem(meta, key) IN
        /\ dictLast' = [op |-> "meta_get", key |-> key, value |-> r.value,
                        outcome |-> r.outcome, pre |-> meta]
        /\ UNCHANGED <<meta, visual, exceptDict>>

\* visual[key], read: nothing is assigned to the dict
VisualGet ==
    \E key \in KeyInputs :
        LET r == RegionVisual_getitem(visual, key) IN
        /\ dictLast' = [op |-> "visual_get", key |-> key, value |-> r.value,
                        outcome |-> r.outcome, pre |-> visual]
        /\ UNCHANGED <<meta, visual, exceptDict>>

(***************************************************************************)
(* Specifications: one per component, and the whole program.               *)
(***************************************************************************)
InitAttr ==
    AttrInit /\ AnnIdle /\ CenIdle /\ RegIdle /\ ConInit /\ MaskInit /\ DictInit

InitAnnulus ==
    AttrIdle /\ AnnInit /\ CenIdle /\ RegIdle /\ ConInit /\ MaskInit /\ DictInit

InitCenter ==
    AttrIdle /\ AnnIdle /\ CenInit /\ RegIdle /\ ConInit /\ MaskInit /\ DictInit

InitRegion ==
    AttrIdle /\ AnnIdle /\ CenIdle /\ RegInit /\ ConInit /\ MaskInit /\ DictInit

InitOther ==
    AttrIdle /\ AnnIdle /\ CenIdle /\ RegIdle /\ ConInit /\ MaskInit /\ DictInit

Init ==
    AttrInit /\ AnnInit /\ CenInit /\ RegInit /\ ConInit /\ MaskInit /\ DictInit

NextAttr == AttrSet \/ AttrGet

NextAnnulus == InnerSet \/ OuterSet

NextCenter == CenterSet \/ AngleSet

NextRegion == Combine \/ SlotSet

NextContains == SkyContains \/ PixelIn

NextMask == ValidateMode

NextDict == MetaSet \/ VisualSet \/ MetaGet \/ VisualGet

Next ==
    \/ AttrSet \/ AttrGet
    \/ InnerSet \/ OuterSet
    \/ CenterSet \/ AngleSet
    \/ Combine \/ SlotSet
    \/ SkyContains \/ PixelIn
    \/ ValidateMode
    \/ MetaSet \/ VisualSet \/ MetaGet \/ VisualGet

SpecAttr == InitAttr /\ [][NextAttr]_vars

SpecAnnulus == InitAnnulus /\ [][NextAnnulus]_vars

SpecCenter == InitCenter /\ [][NextCenter]_vars

SpecRegion == InitRegion /\ [][NextRegion]_vars

SpecContains == InitRegion /\ [][NextContains]_vars

SpecMask == InitOther /\ [][NextMask]_vars

SpecDict == InitOther /\ [][NextDict]_vars

Spec == Init /\ [][Next]_vars

(***************************************************************************)
(* Linked annulus lengths (SpecAnnulus).                                   *)
(***************************************************************************)

\* C1: on a linked annulus that starts with region1.field < region2.field,
\* region1.field < region2.field holds strictly after every sequence of inner
\* and outer writes.
C1_StrictOrder == annField[1].v < annField[2].v

\* C2: an inner write is accepted only if value < region2.field and an outer
\* write only if value > region1.field; in particular a write of a value
\* equal to the other operand's current field is rejected with an error.
C2_EqualRejected ==
    /\ (annLast.op = "inner" /\ annLast.outcome = "ok")
          => annLast.value.v < annLast.pre2.v
    /\ (annLast.op = "outer" /\ annLast.outcome = "ok")
          => annLast.value.v > annLast.pre1.v

\* C3: an inner write never changes region2.field, an outer write never
\* changes region1.field, and a rejected write (order violated, or value not a
\* scalar) leaves both fields at their previous values.
C3_Frame ==
    /\ annLast.op = "inner" => AnnulusOuter_get(annField) = annLast.pre2
    /\ annLast.op = "outer" => AnnulusInner_get(annField) = annLast.pre1
    /\ annLast.outcome \notin {"ok", "none"}
          => /\ AnnulusInner_get(annField) = annLast.pre1
             /\ AnnulusOuter_get(annField) = annLast.pre2

\* an inner write of a scalar above the outer field was rejected, and an
\* earlier accepted write had moved the inner field
C3_Witness ==
    /\ annLast.op = "inner"
    /\ annLast.outcome = "ValueError"
    /\ annLast.value.cls = AnnClass(annVariant)
    /\ isscalar(annLast.value)
    /\ annLast.value.v > annLast.pre2.v
    /\ annField[1] = annLast.pre1
    /\ annField[2] = annLast.pre2

(***************************************************************************)
(* Linked annulus center and angle (SpecCenter).                           *)
(***************************************************************************)

\* C4: a center (or angle) write is all-or-nothing: either both operands hold
\* the written value, or the write is rejected and neither operand changed,
\* also when the value passes the compound's check and an operand's own
\* attribute rejects it.
C4_AllOrNothing ==
    cenLast.op # "none"
      => \/ /\ cenLast.outcome = "ok"
            /\ cenField[1] = cenLast.value
            /\ cenField[2] = cenLast.value
         \/ /\ cenLast.outcome # "ok"
            /\ cenField[1] = cenLast.pre1
            /\ cenField[2] = cenLast.pre2

(***************************************************************************)
(* Constrained attributes (SpecAttr).                                      *)
(***************************************************************************)

\* C5: for every variant and instance, a rejected write raises and leaves the
\* stored value unchanged, an accepted write stores its value, and a read
\* returns the value of the last accepted write, or None if there was none
\* (attrAccepted changes only when a write returns, so the stored values equal
\* it only if no rejected write changed them).
C5_LastAccepted ==
    /\ \A i \in Instances : RegionAttr_get(attrValues, i) = attrAccepted[i]
    /\ (attrLast.op = "set" /\ attrLast.outcome # "ok")
          => /\ attrLast.outcome \in {"ValueError", "NotImplementedError"}
             /\ attrValues[attrLast.inst] = attrAccepted[attrLast.inst]
    /\ (attrLast.op = "set" /\ attrLast.outcome = "ok")
          => attrValues[attrLast.inst] = attrLast.value
    /\ attrLast.op = "get" => attrLast.value = attrAccepted[attrLast.inst]

\* a write was rejected on an instance that holds an earlier accepted value,
\* while another instance was never set
C5_Witness ==
    /\ attrLast.op = "set"
    /\ attrLast.outcome = "ValueError"
    /\ attrAccepted[attrLast.inst] # None
    /\ attrValues[attrLast.inst] = attrAccepted[attrLast.inst]
    /\ attrValues[attrLast.inst] # attrLast.value
    /\ \E i \in Instances : attrValues[i] = None

(***************************************************************************)
(* Region algebra (SpecRegion).                                            *)
(***************************************************************************)
Tag(name) ==
    CASE name \in {"intersection", "&"} -> "and_"
      [] name \in {"union", "|"} -> "or_"
      [] name \in {"symmetric_difference", "^"} -> "xor"

IsCombine == regLast.op \in Methods \cup Sugar

\* C6: for regions a and b of the same frame family, union, intersection and
\* symmetric_difference, and |, & and ^ alike, return a new compound region of
\* a's frame family with region1 = a, region2 = b and the tag OR, AND, XOR.
C6_Algebra ==
    (IsCombine /\ heap[regLast.a].frame = heap[regLast.b].frame)
      => /\ regLast.outcome = "ok"
         /\ regLast.result = regLast.preLen + 1
         /\ regLast.result = Len(heap)
         /\ heap[regLast.result] =
               [frame |-> heap[regLast.a].frame, kind |-> "compound",
                region1 |-> regLast.a, region2 |-> regLast.b,
                operator |-> Tag(regLast.op)]

\* a | b on two sky regions and a.union(b) on two pixel regions each produced
\* an OR compound
C6_Witness ==
    /\ regLast.op = "|"
    /\ regLast.outcome = "ok"
    /\ regLast.a # regLast.b
    /\ heap[regLast.result].operator = "or_"
    /\ heap[regLast.result].region1 = regLast.a
    /\ heap[regLast.result].region2 = regLast.b

\* C7: combining a pixel region with a sky region, in either order, by a named
\* operation or by &, |, ^, fails with an error and produces no compound; an
\* operand slot of a pixel compound accepts only pixel regions and one of a
\* sky compound only sky regions.
C7_FrameMismatch ==
    /\ (IsCombine /\ heap[regLast.a].frame # heap[regLast.b].frame)
          => /\ regLast.outcome = "ValueError"
             /\ regLast.result = 0
             /\ Len(heap) = regLast.preLen
    /\ (regLast.op \in {"region1", "region2"}
         /\ heap[regLast.a].frame # heap[regLast.b].frame)
          => regLast.outcome = "ValueError"
    /\ \A c \in Ids :
          heap[c].kind = "compound"
            => /\ heap[heap[c].region1].frame = heap[c].frame
               /\ heap[heap[c].region2].frame = heap[c].frame

\* a pixel region was combined with a sky region and the call failed
C7_Witness ==
    /\ IsCombine
    /\ heap[regLast.a].frame = "pixel"
    /\ heap[regLast.b].frame = "sky"
    /\ regLast.outcome = "ValueError"
    /\ Len(heap) = regLast.preLen

(***************************************************************************)
(* Mask-mode validation (SpecMask).                                        *)
(***************************************************************************)

\* C8: (mode, subpixels) is accepted exactly when mode is center, exact or
\* subpixels and, for mode subpixels, subpixels is a strictly positive int;
\* for center and exact every subpixels value is accepted.
C8_ValidateMode ==
    maskLast.mode # "none"
      => (maskLast.outcome = "ok"
            <=> /\ maskLast.mode \in {"center", "exact", "subpixels"}
                /\ maskLast.mode = "subpixels"
                      => /\ maskLast.subpixels.cls = "int"
                         /\ maskLast.subpixels.v > 0)

\* mode center with a negative subpixels was accepted
C8_Witness ==
    /\ maskLast.mode = "center"
    /\ maskLast.subpixels.cls = "int"
    /\ maskLast.subpixels.v < 0
    /\ maskLast.outcome = "ok"

(***************************************************************************)
(* Containment (SpecContains).                                             *)
(***************************************************************************)

\* C9: SkyRegion.contains called with a non-scalar sky coordinate fails with a
\* ValueError, without delegating to the pixel region's contains.
C9_SequenceRejected ==
    (conLast.op = "contains" /\ ~isscalar(conLast.coord))
      => /\ conLast.outcome = "ValueError"
         /\ conLast.calls = <<>>

\* C9, amended: SkyRegion.contains makes no scalar check: for every sky
\* coordinate, scalar or not, it calls to_pixel, PixCoord.from_sky and the
\* pixel region's contains; the "must be scalar" ValueError is raised only by
\* PixelRegion.__contains__, for a non-scalar coordinate, without delegating.
C9_Delegates ==
    /\ conLast.op = "contains"
          => /\ conLast.outcome = "returned"
             /\ conLast.calls = <<"to_pixel", "from_sky", "contains">>
    /\ (conLast.op = "in" /\ ~isscalar(conLast.coord))
          => /\ conLast.outcome = "ValueError"
             /\ conLast.calls = <<>>
    /\ (conLast.op = "in" /\ isscalar(conLast.coord))
          => /\ conLast.outcome = "returned"
             /\ conLast.calls = <<"contains">>

\* contains was called on a sky region with a 1-D sky coordinate and delegated
C9_Witness ==
    /\ conLast.op = "contains"
    /\ heap[conLast.region].frame = "sky"
    /\ conLast.coord.ndim = 1
    /\ conLast.outcome = "returned"
    /\ conLast.calls # <<>>

(***************************************************************************)
(* Metadata containers (SpecDict).                                         *)
(***************************************************************************)
MetaCanonical(key) ==
    IF key = "point" THEN "symbol" ELSE IF key = "text" THEN "label" ELSE key

VisualCanonical(key) == IF key = "width" THEN "linewidth" ELSE key

\* C10: an item write maps the key through the alias table, stores under the
\* canonical key if it is in the vocabulary and otherwise fails with the
\* container unchanged; every stored key is a canonical vocabulary key, and a
\* write through an alias leaves the container as a write through its
\* canonical key does.
C10_ItemWrite ==
    /\ DOMAIN meta \subseteq RegionMeta_valid_keys
    /\ DOMAIN visual \subseteq RegionVisual_valid_keys
    /\ dictLast.op = "meta_set"
          => IF MetaCanonical(dictLast.key) \in RegionMeta_valid_keys
             THEN /\ dictLast.outcome = "ok"
                  /\ meta = dict_setitem(dictLast.pre,
                                         MetaCanonical(dictLast.key),
                                         dictLast.value)
                  /\ meta = RegionMeta_setitem(dictLast.pre,
                                               MetaCanonical(dictLast.key),
                                               dictLast.value).dict
             ELSE /\ dictLast.outcome = "KeyError"
                  /\ meta = dictLast.pre
    /\ dictLast.op = "visual_set"
          => IF VisualCanonical(dictLast.key) \in RegionVisual_valid_keys
             THEN /\ dictLast.outcome = "ok"
                  /\ visual = dict_setitem(dictLast.pre,
                                           VisualCanonical(dictLast.key),
                                           dictLast.value)
                  /\ visual = RegionVisual_setitem(dictLast.pre,
                                                   VisualCanonical(dictLast.key),
                                                   dictLast.value).dict
             ELSE /\ dictLast.outcome = "KeyError"
                  /\ visual = dictLast.pre

\* meta["point"] was written over a stored symbol and is stored as symbol
C10_Witness ==
    /\ dictLast.op = "meta_set"
    /\ dictLast.key = "point"
    /\ dictLast.outcome = "ok"
    /\ "symbol" \in DOMAIN dictLast.pre
    /\ meta["symbol"] = dictLast.value
    /\ dictLast.pre["symbol"] # dictLast.value
    /\ "point" \notin DOMAIN meta

\* C11: an item read applies the alias table and then distinguishes two
\* failures: a key of the vocabulary that is not stored fails with one outcome
\* (key not found), a key outside the vocabulary with a different one
\* (invalid key); a read never creates a key or changes the container.
C11_TwoFailures ==
    /\ (dictLast.op = "meta_get"
         /\ MetaCanonical(dictLast.key) \notin RegionMeta_valid_keys)
          => /\ dictLast.outcome # "ok"
             /\ \A k \in RegionMeta_valid_keys \ DOMAIN meta :
                   dictLast.outcome # RegionMeta_getitem(meta, k).outcome
    /\ (dictLast.op = "visual_get"
         /\ VisualCanonical(dictLast.key) \notin RegionVisual_valid_keys)
          => /\ dictLast.outcome # "ok"
             /\ \A k \in RegionVisual_valid_keys \ DOMAIN visual :
                   dictLast.outcome # RegionVisual_getitem(visual, k).outcome
    /\ dictLast.op = "meta_get" => meta = dictLast.pre
    /\ dictLast.op = "visual_get" => visual = dictLast.pre

\* C11, amended: an item read applies the alias table and looks the mapped
\* key up among the stored items, with no test of the vocabulary: a stored key
\* returns its value, and every key that is not stored, in the vocabulary or
\* not, fails with the same KeyError; a read never creates a key or changes
\* the container.
C11_ItemRead ==
    /\ dictLast.op = "meta_get"
          => /\ meta = dictLast.pre
             /\ IF MetaCanonical(dictLast.key) \in DOMAIN dictLast.pre
                THEN /\ dictLast.outcome = "ok"
                     /\ dictLast.value = dictLast.pre[MetaCanonical(dictLast.key)]
                ELSE dictLast.outcome = "KeyError"
    /\ dictLast.op = "visual_get"
          => /\ visual = dictLast.pre
             /\ IF VisualCanonical(dictLast.key) \in DOMAIN dictLast.pre
                THEN /\ dictLast.outcome = "ok"
                     /\ dictLast.value = dictLast.pre[VisualCanonical(dictLast.key)]
                ELSE dictLast.outcome = "KeyError"

\* meta["nonsense"] was read from a container that stores symbol but not
\* label: the read failed as a read of label fails, and nothing was created
C11_Witness ==
    /\ dictLast.op = "meta_get"
    /\ dictLast.key = "nonsense"
    /\ dictLast.outcome = "KeyError"
    /\ "symbol" \in DOMAIN meta
    /\ "label" \notin DOMAIN meta
    /\ RegionMeta_getitem(meta, "label").outcome = dictLast.outcome
    /\ "nonsense" \notin DOMAIN meta
    /\ meta = dictLast.pre

====
